---- MODULE Spec2Model ----
(***************************************************************************)
(* A model of preAssignment/ip_manager.py: the Address record (parsing,    *)
(* normalisation, prefix containment) and the IPManager store (load from   *)
(* a CSV file, append-on-insert, lookup and the two searches).             *)
(*                                                                         *)
(* Text is a sequence of one-character strings, so that splitting,         *)
(* padding, CSV quoting and CSV reading are computed character by          *)
(* character, as the code and the libraries it calls compute them.  The    *)
(* interpreter modelled is Python 3 (text files opened without newline=''  *)
(* read with universal newlines; dict keeps insertion order).              *)
(*                                                                         *)
(* A 32-bit address value is kept as its two 16-bit halves [hi, lo]: the   *)
(* model checker's integers are 32-bit signed and cannot hold 2^32 - 1.    *)
(***************************************************************************)
EXTENDS Integers, Sequences, FiniteSets, TLC

----------------------------------------------------------------------------
(* Characters and generic text helpers (str.split, str.join, in)           *)

NUL == "NUL"
CR  == "\r"
LF  == "\n"
QUOTE == "\""
COMMA == ","

Digit == {"0", "1", "2", "3", "4", "5", "6", "7", "8", "9"}
Space == {" ", "\t", "\n", "\r"}

DigitVal(c) ==
  CASE c = "0" -> 0 [] c = "1" -> 1 [] c = "2" -> 2 [] c = "3" -> 3
    [] c = "4" -> 4 [] c = "5" -> 5 [] c = "6" -> 6 [] c = "7" -> 7
    [] c = "8" -> 8 [] c = "9" -> 9
    [] c \in {"a", "A"} -> 10 [] c \in {"b", "B"} -> 11
    [] c \in {"c", "C"} -> 12 [] c \in {"d", "D"} -> 13
    [] c \in {"e", "E"} -> 14 [] c \in {"f", "F"} -> 15
    [] OTHER -> 99

\* characters that are digits of the given base
IsDigitOf(c, base) == DigitVal(c) < base

\* 'c in s' for a one-character c
HasChar(s, c) == \E i \in 1..Len(s) : s[i] = c

\* index of the first occurrence of c in s, 0 when there is none
IndexOf(s, c) ==
  IF HasChar(s, c)
  THEN CHOOSE i \in 1..Len(s) : s[i] = c /\ \A j \in 1..(i - 1) : s[j] # c
  ELSE 0

\* s.split(c): the pieces between the occurrences of c (never empty list)
RECURSIVE Split(_, _)
Split(s, c) ==
  LET i == IndexOf(s, c)
  IN IF i = 0 THEN <<s>>
     ELSE <<SubSeq(s, 1, i - 1)>> \o Split(SubSeq(s, i + 1, Len(s)), c)

\* c.join(tokens)
RECURSIVE Join(_, _)
Join(tokens, c) ==
  IF Len(tokens) = 0 THEN <<>>
  ELSE IF Len(tokens) = 1 THEN tokens[1]
  ELSE tokens[1] \o <<c>> \o Join(Tail(tokens), c)

\* 'sub in s' for strings: sub occurs in s as a contiguous piece
IsSubstring(sub, s) ==
  \E i \in 0..(Len(s) - Len(sub)) : SubSeq(s, i + 1, i + Len(sub)) = sub

----------------------------------------------------------------------------
(* class Address                                                           *)

\* the number of bits of an address value
WordBits == 32

\* Address._normalize_addr: pad the dotted value with "0" tokens up to four
_normalize_addr(addr) ==
  LET tokens == Split(addr, ".")
      missing == IF 4 - Len(tokens) > 0 THEN 4 - Len(tokens) ELSE 0
  IN Join(tokens \o [i \in 1..missing |-> <<"0">>], ".")

\* strtoul(cp, &endp, 0) as inet_aton calls it at a digit s[i]: the number
\* read (decimal, octal after a leading 0, hexadecimal after 0x) and the
\* index of the first character not consumed
RECURSIVE ReadDigits(_, _, _, _)
ReadDigits(s, i, base, acc) ==
  IF i <= Len(s) /\ IsDigitOf(s[i], base)
  THEN ReadDigits(s, i + 1, base, acc * base + DigitVal(s[i]))
  ELSE [val |-> acc, end |-> i]

strtoul(s, i) ==
  IF s[i] = "0" /\ i + 2 <= Len(s) /\ s[i + 1] \in {"x", "X"}
     /\ IsDigitOf(s[i + 2], 16)
  THEN ReadDigits(s, i + 2, 16, 0)
  ELSE IF s[i] = "0" THEN ReadDigits(s, i, 8, 0)
  ELSE ReadDigits(s, i, 10, 0)

NoValue == [ok |-> FALSE, hi |-> 0, lo |-> 0]

\* the largest last part inet_aton accepts after n dotted parts (n >= 1);
\* with n = 0 the limit is 2^32 - 1, above every number the inputs can spell
MaxLastPart(n) == CASE n = 1 -> 16777215 [] n = 2 -> 65535 [] OTHER -> 255

\* the value of parts pp followed by a last part val, as 16-bit halves
ComposeValue(pp, val) ==
  CASE Len(pp) = 3 -> [ok |-> TRUE, hi |-> pp[1] * 256 + pp[2],
                       lo |-> pp[3] * 256 + val]
    [] Len(pp) = 2 -> [ok |-> TRUE, hi |-> pp[1] * 256 + pp[2], lo |-> val]
    [] Len(pp) = 1 -> [ok |-> TRUE, hi |-> pp[1] * 256 + (val \div 65536),
                       lo |-> val % 65536]
    [] OTHER       -> [ok |-> TRUE, hi |-> val \div 65536, lo |-> val % 65536]

\* socket.inet_aton followed by struct.unpack('>I', ...): scan numbers
\* separated by dots; at most three dotted parts, each at most 255, before
\* the last one; the scan ends at the end of the text or at white space
RECURSIVE inet_aton_from(_, _, _)
inet_aton_from(s, i, pp) ==
  IF i > Len(s) \/ s[i] \notin Digit THEN NoValue
  ELSE LET r == strtoul(s, i)
           c == IF r.end > Len(s) THEN NUL ELSE s[r.end]
       IN IF c = "."
          THEN IF Len(pp) > 2 \/ r.val > 255 THEN NoValue
               ELSE inet_aton_from(s, r.end + 1, Append(pp, r.val))
          ELSE IF c # NUL /\ c \notin Space THEN NoValue
          ELSE IF Len(pp) >= 1 /\ r.val > MaxLastPart(Len(pp)) THEN NoValue
          ELSE ComposeValue(pp, r.val)

inet_aton(s) == inet_aton_from(s, 1, <<>>)

\* int(prefix): optional white space around an optional sign and decimal
\* digits
RECURSIVE StripLeft(_)
StripLeft(s) ==
  IF Len(s) > 0 /\ s[1] \in Space THEN StripLeft(Tail(s)) ELSE s

RECURSIVE StripRight(_)
StripRight(s) ==
  IF Len(s) > 0 /\ s[Len(s)] \in Space
  THEN StripRight(SubSeq(s, 1, Len(s) - 1)) ELSE s

NoInt == [ok |-> FALSE, val |-> 0]

int(text) ==
  LET t == StripRight(StripLeft(text))
      signed == Len(t) > 0 /\ t[1] \in {"+", "-"}
      digits == IF signed THEN Tail(t) ELSE t
      mag == ReadDigits(digits, 1, 10, 0)
  IN IF Len(digits) = 0 \/ mag.end # Len(digits) + 1 THEN NoInt
     ELSE [ok |-> TRUE,
           val |-> IF signed /\ t[1] = "-" THEN 0 - mag.val ELSE mag.val]

\* the two halves of addr around its first "/" (value, prefix text)
ValuePart(addr) ==
  IF HasChar(addr, "/") THEN SubSeq(addr, 1, IndexOf(addr, "/") - 1) ELSE addr

PrefixPart(addr) ==
  IF HasChar(addr, "/")
  THEN SubSeq(addr, IndexOf(addr, "/") + 1, Len(addr))
  ELSE <<"3", "2">>

\* what Address.__init__ raises for addr: "OSError" from inet_aton,
\* "ValueError" from int, "none" when the record is built
AddressError(addr) ==
  IF ~inet_aton(_normalize_addr(ValuePart(addr))).ok THEN "OSError"
  ELSE IF ~int(PrefixPart(addr)).ok THEN "ValueError"
  ELSE "none"

\* Address.__init__ for an addr it accepts: the five slots
Address(addr, note) ==
  LET v == inet_aton(_normalize_addr(ValuePart(addr)))
  IN [addr   |-> addr,
      note   |-> note,
      cidr   |-> ValuePart(addr) \o <<"/">> \o PrefixPart(addr),
      value  |-> [hi |-> v.hi, lo |-> v.lo],
      prefix |-> int(PrefixPart(addr)).val]

\* Shr with the shift count taken modulo the word size, as a 32-bit machine
\* shift does: a shift by 32 leaves the value as it is
Shr_wrap(v, s) ==
  LET k == s % WordBits
  IN IF k >= 16 THEN [hi |-> 0, lo |-> v.hi \div (2 ^ (k - 16))]
     ELSE [hi |-> v.hi \div (2 ^ k),
           lo |-> (v.hi % (2 ^ k)) * (2 ^ (16 - k)) + (v.lo \div (2 ^ k))]

\* v >> s for a 32-bit value v kept as halves and a shift count s >= 0
\* (Python integers are unbounded: a shift by 32 or more leaves 0)
Shr(v, s) ==
  IF s >= WordBits THEN [hi |-> 0, lo |-> 0]
  ELSE IF s >= 16 THEN [hi |-> 0, lo |-> v.hi \div (2 ^ (s - 16))]
  ELSE [hi |-> v.hi \div (2 ^ s),
        lo |-> (v.hi % (2 ^ s)) * (2 ^ (16 - s)) + (v.lo \div (2 ^ s))]

\* Address.__contains__ raises ValueError (negative shift count) when the
\* prefix of self is above 32
ContainsRaises(self) == WordBits - self.prefix < 0

\* Contains with the prefixes compared strictly
Contains_strict(self, other) ==
  LET self_net  == Shr(self.value, WordBits - self.prefix)
      other_net == Shr(other.value, WordBits - self.prefix)
  IN self_net = other_net /\ self.prefix < other.prefix

\* Contains without the comparison of the prefixes
Contains_noprefix(self, other) ==
  LET self_net  == Shr(self.value, WordBits - self.prefix)
      other_net == Shr(other.value, WordBits - self.prefix)
  IN self_net = other_net

\* Address.__contains__(self, other) for an Address other, when it returns
Contains(self, other) ==
  LET self_net  == Shr(self.value, WordBits - self.prefix)
      other_net == Shr(other.value, WordBits - self.prefix)
  IN self_net = other_net /\ self.prefix <= other.prefix

----------------------------------------------------------------------------
(* The backing file: csv.writer on a file opened 'at', csv.reader on a     *)
(* file opened 'rt'                                                        *)

\* a field between quotes, every embedded quote doubled (QUOTE_ALL)
RECURSIVE QuoteBody(_)
QuoteBody(field) ==
  IF Len(field) = 0 THEN <<>>
  ELSE (IF field[1] = QUOTE THEN <<QUOTE, QUOTE>> ELSE <<field[1]>>)
       \o QuoteBody(Tail(field))

QuoteField(field) == <<QUOTE>> \o QuoteBody(field) \o <<QUOTE>>

\* w.writerow((address, note)): the characters appended to the file
WriteRow(address, note) ==
  QuoteField(address) \o <<COMMA>> \o QuoteField(note) \o <<CR, LF>>

\* reading in text mode with universal newlines: "\r\n" and "\r" come out
\* as "\n" (the "\n" of a "\r\n" is dropped, every "\r" becomes "\n")
ReadText(bytes) ==
  LET chars == [i \in 1..Len(bytes) |->
                  [c    |-> IF bytes[i] = CR THEN LF ELSE bytes[i],
                   keep |-> ~(bytes[i] = LF /\ i > 1 /\ bytes[i - 1] = CR)]]
      kept == SelectSeq(chars, LAMBDA x : x.keep)
  IN [i \in 1..Len(kept) |-> kept[i].c]

\* the end-of-line marker the reader processes after each line
EOL == "EOL"

ReaderStart ==
  [state |-> "START_RECORD", field |-> <<>>, fields |-> <<>>, rows |-> <<>>]

\* the reader after the field being read is saved; the record is returned
\* when the state goes back to START_RECORD
SaveField(st, next) ==
  IF next = "START_RECORD"
  THEN [state |-> next, field |-> <<>>, fields |-> <<>>,
        rows |-> Append(st.rows, Append(st.fields, st.field))]
  ELSE [st EXCEPT !.state = next, !.field = <<>>,
                  !.fields = Append(st.fields, st.field)]

AddChar(st, c, next) ==
  [st EXCEPT !.state = next, !.field = Append(st.field, c)]

AfterLine(c) == IF c = EOL THEN "START_RECORD" ELSE "EAT_CRNL"

\* one character through the reader's state machine (excel dialect: comma,
\* double quote, doublequote, not strict)
ReaderStep(st, c) ==
  LET state == IF st.state = "START_RECORD" /\ c \notin {EOL, LF, CR}
               THEN "START_FIELD" ELSE st.state
  IN CASE state = "START_RECORD" ->
            IF c = EOL
            THEN [st EXCEPT !.rows = Append(st.rows, st.fields),
                            !.fields = <<>>]
            ELSE [st EXCEPT !.state = "EAT_CRNL"]
       [] state = "START_FIELD" ->
            IF c \in {LF, CR, EOL} THEN SaveField(st, AfterLine(c))
            ELSE IF c = QUOTE THEN [st EXCEPT !.state = "IN_QUOTED_FIELD"]
            ELSE IF c = COMMA THEN SaveField(st, "START_FIELD")
            ELSE AddChar(st, c, "IN_FIELD")
       [] state = "IN_FIELD" ->
            IF c \in {LF, CR, EOL} THEN SaveField(st, AfterLine(c))
            ELSE IF c = COMMA THEN SaveField(st, "START_FIELD")
            ELSE AddChar(st, c, "IN_FIELD")
       [] state = "IN_QUOTED_FIELD" ->
            IF c = EOL THEN st
            ELSE IF c = QUOTE
                 THEN [st EXCEPT !.state = "QUOTE_IN_QUOTED_FIELD"]
            ELSE AddChar(st, c, "IN_QUOTED_FIELD")
       [] state = "QUOTE_IN_QUOTED_FIELD" ->
            IF c = QUOTE THEN AddChar(st, c, "IN_QUOTED_FIELD")
            ELSE IF c = COMMA THEN SaveField(st, "START_FIELD")
            ELSE IF c \in {LF, CR, EOL} THEN SaveField(st, AfterLine(c))
            ELSE AddChar(st, c, "IN_FIELD")
       [] state = "EAT_CRNL" ->
            IF c \in {LF, CR} THEN st
            ELSE IF c = EOL
                 THEN [st EXCEPT !.state = "START_RECORD",
                                 !.rows = Append(st.rows, st.fields),
                                 !.fields = <<>>]
            ELSE [st EXCEPT !.state = "ERROR"]
       [] OTHER -> st

\* the character text[i] through the reader; a line ends at "\n" or at the
\* end of the text, and the reader then processes the end-of-line marker
ReaderFeed(st, text, i) ==
  LET after == ReaderStep(st, text[i])
  IN IF text[i] = LF \/ i = Len(text) THEN ReaderStep(after, EOL) ELSE after

\* the characters text[lo..hi] through the reader, left to right, stopping
\* at an error (the range is halved to keep the evaluation shallow)
RECURSIVE ReaderRun(_, _, _, _)
ReaderRun(st, text, lo, hi) ==
  IF lo > hi THEN st
  ELSE IF lo = hi THEN ReaderFeed(st, text, lo)
  ELSE LET mid == (lo + hi) \div 2
           left == ReaderRun(st, text, lo, mid)
       IN IF left.state = "ERROR" THEN left
          ELSE ReaderRun(left, text, mid + 1, hi)

\* list(csv.reader(fp)): the rows of the file, or an error; a quoted field
\* still open at the end of the file is closed there
ReadRows(bytes) ==
  LET text == ReadText(bytes)
      st == ReaderRun(ReaderStart, text, 1, Len(text))
  IN IF st.state = "ERROR" THEN [ok |-> FALSE, rows |-> <<>>]
     ELSE IF st.state = "IN_QUOTED_FIELD"
          THEN [ok |-> TRUE,
                rows |-> Append(st.rows, Append(st.fields, st.field))]
     ELSE [ok |-> TRUE, rows |-> st.rows]

----------------------------------------------------------------------------
(* class IPManager                                                         *)

\* the keys of the dict, in insertion order
Keys(storage) == [i \in 1..Len(storage) |-> storage[i].addr]

\* HasKey looking the text up among the cidr forms instead of the keys
HasKey_cidr(storage, address) ==
  \E i \in 1..Len(storage) : storage[i].cidr = address

\* HasKey comparing canonical forms: a text denoting the block of a stored
\* record counts as present
HasKey_canonical(storage, address) ==
  /\ AddressError(address) = "none"
  /\ \E i \in 1..Len(storage) :
       /\ storage[i].value = Address(address, <<>>).value
       /\ storage[i].prefix = Address(address, <<>>).prefix

\* address in self._storage
HasKey(storage, address) == \E i \in 1..Len(storage) : storage[i].addr = address

\* DictSet that leaves the record of an existing key as it is
DictSet_first(storage, rec) ==
  IF \E i \in 1..Len(storage) : storage[i].addr = rec.addr
  THEN storage
  ELSE Append(storage, rec)

\* self._storage[address] = rec: a new key goes last, an existing key keeps
\* its place
DictSet(storage, rec) ==
  IF HasKey(storage, rec.addr)
  THEN [i \in 1..Len(storage) |->
          IF storage[i].addr = rec.addr THEN rec ELSE storage[i]]
  ELSE Append(storage, rec)

\* LoadRows that stops at a row it cannot use and keeps what it has loaded
RECURSIVE LoadRows_partial(_, _, _)
LoadRows_partial(rows, i, storage) ==
  IF i > Len(rows) THEN [ok |-> TRUE, storage |-> storage]
  ELSE IF Len(rows[i]) # 2 \/ AddressError(rows[i][1]) # "none"
       THEN [ok |-> TRUE, storage |-> storage]
  ELSE LoadRows_partial(rows, i + 1,
                        DictSet(storage, Address(rows[i][1], rows[i][2])))

\* IPManager._load_storage over the rows read: every row must unpack into
\* (address, note) and Address must accept the address
RECURSIVE LoadRows(_, _, _)
LoadRows(rows, i, storage) ==
  IF i > Len(rows) THEN [ok |-> TRUE, storage |-> storage]
  ELSE IF Len(rows[i]) # 2 \/ AddressError(rows[i][1]) # "none"
       THEN [ok |-> FALSE, storage |-> <<>>]
  ELSE LoadRows(rows, i + 1, DictSet(storage, Address(rows[i][1], rows[i][2])))

\* IPManager(storage_fn) on a file with these contents: the dict loaded,
\* or ok = FALSE when the constructor raises
_load_storage(bytes) ==
  LET r == ReadRows(bytes)
  IN IF ~r.ok THEN [ok |-> FALSE, storage |-> <<>>]
     ELSE LoadRows(r.rows, 1, <<>>)

\* self._storage.get(address): the record in a list, the empty list for None
Get(storage, address) == SelectSeq(storage, LAMBDA r : r.addr = address)

\* CidrMatches with the containment the other way round (cidr in addr)
CidrMatches_swapped(storage, cidr) ==
  SelectSeq(storage, LAMBDA r : Contains(r, cidr))

\* [addr for addr in self._storage.values() if addr in cidr]
CidrMatches(storage, cidr) == SelectSeq(storage, LAMBDA r : Contains(cidr, r))

\* NoteMatches comparing for equality (note == record.note)
NoteMatches_equal(storage, note) ==
  SelectSeq(storage, LAMBDA r : r.note = note)

\* [record for record in self._storage.values() if note in record.note]
NoteMatches(storage, note) ==
  SelectSeq(storage, LAMBDA r : IsSubstring(note, r.note))

----------------------------------------------------------------------------
(* Inputs                                                                  *)

\* the most rows one behaviour appends to the file
MaxWrites == 2

\* the file the module's __main__ block leaves behind on its first run
DemoFile ==
     WriteRow(<<"1", "3", "7", ".", "4", "3", ".", "4", ".", "1", "8">>, <<"h", "o", "s", "t">>)
  \o WriteRow(<<"1", "3", "7", ".", "4", "3", ".", "4", ".", "1", "9">>, <<"h", "o", "s", "t">>)
  \o WriteRow(<<"1", "3", "7", ".", "4", "3", ".", "4", ".", "2", "0", "/", "3", "2">>, <<"h", "o", "s", "t", "/", "c", "i", "d", "r">>)
  \o WriteRow(<<"1", "3", "7", ".", "4", "3", "/", "1", "6">>, <<"n", "e", "t">>)

InitialFiles == {<<>>, DemoFile}

\* address texts passed to insert and lookup: a host, the block 137.43/16
\* of the __main__ block written in full, a value inet_aton rejects, a
\* prefix int rejects
Addresses ==
  { <<"1", "0", ".", "0", ".", "0", ".", "1">>,
    <<"1", "3", "7", ".", "4", "3", ".", "0", ".", "0", "/", "1", "6">>,
    <<"9", "9", "9", ".", "1", ".", "1", ".", "1">>,
    <<"1", "0", ".", "0", "/", "x", "x">> }

\* notes passed to insert: a plain one, and one with the quote, the
\* delimiter and a carriage return
Notes == { <<"h", "o", "s", "t">>, <<"q", QUOTE, COMMA, CR>> }

\* texts passed to addrs_by_cidr: the search of the __main__ block, a
\* block over inserted addresses, a prefix above 32, a prefix int rejects
Cidrs ==
  { <<"1", "3", "7", ".", "4", "3", ".", "4", "/", "2", "4">>,
    <<"1", "0", ".", "0", "/", "1", "6">>,
    <<"1", "0", ".", "0", "/", "3", "3">>,
    <<"1", "0", ".", "0", "/", "x", "x">> }

\* texts passed to addrs_by_note: the empty text, the search of the __main__
\* block, the same with a capital
Substrings == { <<>>, <<"h", "o", "s", "t">>, <<"H", "o", "s", "t">> }

\* records handed to __contains__ directly
Values ==
  { [hi |-> 0, lo |-> 0], [hi |-> 65535, lo |-> 65535],
    [hi |-> 35115, lo |-> 1042], [hi |-> 35115, lo |-> 1043],
    [hi |-> 35115, lo |-> 0], [hi |-> 35114, lo |-> 65535],
    [hi |-> 51201, lo |-> 515] }

Prefixes == 0..WordBits

Records == [value : Values, prefix : Prefixes]

----------------------------------------------------------------------------
(* State                                                                   *)

VARIABLES
  file,      \* the characters of the backing file
  storage,   \* self._storage: the records in insertion order of their keys
  alive,     \* FALSE when the last IPManager(...) raised: there is no store
  fresh,     \* the store was built on an empty file and never rebuilt
  written,   \* rows appended so far
  last,      \* the last call (see Call)
  self,      \* __contains__ called directly: the containing record,
  other,     \*   the candidate record,
  answer,    \*   and what the call returned ("unset" before the call)
  third,     \* a third record, for chains of __contains__ calls,
  answers,   \*   and what the three calls of a chain returned
  text,      \* Address called directly: the text it is given,
  made       \*   and what the call produced (see Made)

storeVars == <<file, storage, alive, fresh, written, last>>
pureVars  == <<self, other, answer, third, answers, text, made>>
vars      == <<file, storage, alive, fresh, written, last, self, other, answer,
               third, answers, text, made>>

\* what is kept of a call: the operation, how it ended ("ok", "skip",
\* "printed", or the exception raised), and for a read its argument and
\* the list it returned
Call(op, outcome, arg, result) ==
  [op |-> op, outcome |-> outcome, arg |-> arg, result |-> result]

NoRecord == [value |-> [hi |-> 0, lo |-> 0], prefix |-> 0]

\* the answers of a chain before its calls
NoAnswers == [ab |-> "unset", bc |-> "unset", ac |-> "unset"]

\* what a call of Address produced: the outcome ("ok" or the exception
\* raised) and the cidr, value and prefix slots of the record built
Made(outcome, cidr, value, prefix) ==
  [outcome |-> outcome, cidr |-> cidr, value |-> value, prefix |-> prefix]

NotMade == Made("unset", <<>>, [hi |-> 0, lo |-> 0], 0)

\* the pure calls at rest
PureIdle ==
  /\ self = NoRecord /\ other = NoRecord /\ answer = "unset"
  /\ third = NoRecord /\ answers = NoAnswers
  /\ text = <<>> /\ made = NotMade

\* a store at rest, for the specifications of the pure calls
StoreIdle ==
  /\ file = <<>> /\ storage = <<>> /\ alive = TRUE /\ fresh = TRUE
  /\ written = 0 /\ last = Call("__init__", "ok", <<>>, <<>>)

StoreInit ==
  /\ file \in InitialFiles
  /\ \E loaded \in {_load_storage(file)} :
       storage = loaded.storage /\ alive = loaded.ok
  /\ fresh = (file = <<>>)
  /\ written = 0
  /\ last = Call("__init__", "ok", <<>>, <<>>)

Init ==
  /\ StoreInit
  /\ PureIdle

\* IPManager.__init__: a store is built again from the file (the file is
\* created when missing, never changed); the constructor raises when the
\* load raises
__init__ ==
  /\ \E loaded \in {_load_storage(file)} :
       /\ alive' = loaded.ok
       /\ storage' = loaded.storage
       /\ last' = Call("__init__", IF loaded.ok THEN "ok" ELSE "raised",
                       <<>>, <<>>)
  /\ fresh' = FALSE
  /\ UNCHANGED <<file, written>>

\* insert with the dict update outside the else clause: it also runs after
\* a failed append was printed
insert_unguarded(address, note, appendFails) ==
  /\ alive
  /\ IF HasKey(storage, address)
     THEN /\ last' = Call("insert", "skip", <<>>, <<>>)
          /\ UNCHANGED <<file, storage, written>>
     ELSE /\ IF appendFails
             THEN UNCHANGED <<file, written>>
             ELSE /\ written < MaxWrites
                  /\ file' = file \o WriteRow(address, note)
                  /\ written' = written + 1
          /\ \E error \in {AddressError(address)} :
               IF error # "none"
               THEN /\ last' = Call("insert", error, <<>>, <<>>)
                    /\ UNCHANGED storage
               ELSE /\ storage' = DictSet(storage, Address(address, note))
                    /\ last' = Call("insert",
                                    IF appendFails THEN "printed" ELSE "ok",
                                    <<>>, <<>>)
  /\ UNCHANGED <<alive, fresh>>

\* insert without the test for a key already present: the row is appended
\* and the record of the key replaced
insert_overwrite(address, note, appendFails) ==
  /\ alive
  /\ IF appendFails
     THEN /\ last' = Call("insert", "printed", <<>>, <<>>)
          /\ UNCHANGED <<file, storage, written>>
     ELSE /\ written < MaxWrites
          /\ file' = file \o WriteRow(address, note)
          /\ written' = written + 1
          /\ \E error \in {AddressError(address)} :
               IF error # "none"
               THEN /\ last' = Call("insert", error, <<>>, <<>>)
                    /\ UNCHANGED storage
               ELSE /\ storage' = DictSet(storage, Address(address, note))
                    /\ last' = Call("insert", "ok", <<>>, <<>>)
  /\ UNCHANGED <<alive, fresh>>

\* IPManager.insert.  Outcomes: "skip" (key present, message printed),
\* "printed" (open or write raised, the exception is printed and insert
\* returns), "ok", or the exception Address raises after the row is written.
\* appendFails is the environment's choice; a failed append leaves the file
\* as it was.
insert(address, note, appendFails) ==
  /\ alive
  /\ IF HasKey(storage, address)
     THEN /\ last' = Call("insert", "skip", <<>>, <<>>)
          /\ UNCHANGED <<file, storage, written>>
     ELSE IF appendFails
     THEN /\ last' = Call("insert", "printed", <<>>, <<>>)
          /\ UNCHANGED <<file, storage, written>>
     ELSE /\ written < MaxWrites
          /\ file' = file \o WriteRow(address, note)
          /\ written' = written + 1
          /\ \E error \in {AddressError(address)} :
               IF error # "none"
               THEN /\ last' = Call("insert", error, <<>>, <<>>)
                    /\ UNCHANGED storage
               ELSE /\ storage' = DictSet(storage, Address(address, note))
                    /\ last' = Call("insert", "ok", <<>>, <<>>)
  /\ UNCHANGED <<alive, fresh>>

\* IPManager.lookup
lookup(address) ==
  /\ alive
  /\ last' = Call("lookup", "ok", address, Get(storage, address))
  /\ UNCHANGED <<file, storage, alive, fresh, written>>

\* addrs_by_cidr keeping the record it builds from cidr in the dict
addrs_by_cidr_storing(cidr) ==
  /\ alive
  /\ \E error \in {AddressError(cidr)} :
       /\ last' =
            IF error # "none" THEN Call("addrs_by_cidr", error, cidr, <<>>)
            ELSE IF Len(storage) > 0 /\ ContainsRaises(Address(cidr, <<>>))
            THEN Call("addrs_by_cidr", "ValueError", cidr, <<>>)
            ELSE Call("addrs_by_cidr", "ok", cidr,
                      CidrMatches(storage, Address(cidr, <<>>)))
       /\ storage' = IF error # "none" THEN storage
                     ELSE DictSet(storage, Address(cidr, <<>>))
  /\ UNCHANGED <<file, alive, fresh, written>>

\* IPManager.addrs_by_cidr: Address(cidr) may raise; __contains__ is called
\* once per stored record and raises when the prefix of cidr is above 32
addrs_by_cidr(cidr) ==
  /\ alive
  /\ \E error \in {AddressError(cidr)} :
       last' =
         IF error # "none" THEN Call("addrs_by_cidr", error, cidr, <<>>)
         ELSE IF Len(storage) > 0 /\ ContainsRaises(Address(cidr, <<>>))
         THEN Call("addrs_by_cidr", "ValueError", cidr, <<>>)
         ELSE Call("addrs_by_cidr", "ok", cidr,
                   CidrMatches(storage, Address(cidr, <<>>)))
  /\ UNCHANGED <<file, storage, alive, fresh, written>>

\* IPManager.addrs_by_note
addrs_by_note(note) ==
  /\ alive
  /\ last' = Call("addrs_by_note", "ok", note, NoteMatches(storage, note))
  /\ UNCHANGED <<file, storage, alive, fresh, written>>

Next ==
  \/ __init__ /\ UNCHANGED pureVars
  \/ \E a \in Addresses, n \in Notes, f \in BOOLEAN :
       insert(a, n, f) /\ UNCHANGED pureVars
  \/ \E a \in Addresses : lookup(a) /\ UNCHANGED pureVars
  \/ \E c \in Cidrs : addrs_by_cidr(c) /\ UNCHANGED pureVars
  \/ \E n \in Substrings : addrs_by_note(n) /\ UNCHANGED pureVars

Spec == Init /\ [][Next]_vars

----------------------------------------------------------------------------
(* __contains__ on its own: the two records are drawn, then the call       *)

ContainsInit ==
  /\ StoreIdle
  /\ self \in Records /\ other \in Records /\ answer = "unset"
  /\ third = NoRecord /\ answers = NoAnswers
  /\ text = <<>> /\ made = NotMade

__contains__ ==
  /\ answer = "unset"
  /\ answer' = IF ContainsRaises(self) THEN "ValueError"
               ELSE IF Contains(self, other) THEN "True" ELSE "False"
  /\ UNCHANGED <<self, other, third, answers, text, made>>
  /\ UNCHANGED storeVars

ContainsNext == __contains__

ContainsSpec == ContainsInit /\ [][ContainsNext]_vars

----------------------------------------------------------------------------
(* Address on its own: the text is drawn, then the call                    *)

\* value parts: short and full dotted forms, the extremes, an octet out of
\* range, five parts, an empty part, the empty text, text after a blank, a
\* part that is not octal, an octal and a hexadecimal part, a first part
\* out of range
ValueTexts ==
  { <<"1", "3", "7", ".", "4", "3">>,
    <<"1", "3", "7", ".", "4", "3", ".", "4", ".", "1", "8">>,
    <<"1", "0">>,
    <<"1", "0", ".", "0", ".", "0">>,
    <<"2", "5", "5", ".", "2", "5", "5", ".", "2", "5", "5", ".", "2", "5", "5">>,
    <<"9", "9", "9", ".", "1", ".", "1", ".", "1">>,
    <<"1", ".", "2", ".", "3", ".", "4", ".", "5">>,
    <<"1", "0", ".", ".", "1">>,
    <<>>,
    <<"1", ".", "2", ".", "3", ".", "4", " ", "x">>,
    <<"0", "8", ".", "1">>,
    <<"0", "1", "0", ".", "1">>,
    <<"0", "x", "1", "0", ".", "1">>,
    <<"2", "5", "6", ".", "1">> }

\* what follows the value part: nothing, prefixes in and out of 0..32, text
\* that is no number, nothing after the slash, a sign, a blank, two slashes
PrefixTexts ==
  { <<>>,
    <<"/", "1", "6">>,
    <<"/", "0">>,
    <<"/", "3", "2">>,
    <<"/", "3", "3">>,
    <<"/", "x", "x">>,
    <<"/">>,
    <<"/", "-", "1">>,
    <<"/", " ", "8">>,
    <<"/", "1", "/", "2">> }

AddressTexts == {v \o p : v \in ValueTexts, p \in PrefixTexts}

AddressInit ==
  /\ StoreIdle
  /\ self = NoRecord /\ other = NoRecord /\ answer = "unset"
  /\ third = NoRecord /\ answers = NoAnswers
  /\ text \in AddressTexts /\ made = NotMade

\* Address(text): the record built, or the exception raised (inet_aton is
\* called before int, so a bad value is reported before a bad prefix)
Address__init__ ==
  /\ made = NotMade
  /\ \E error \in {AddressError(text)} :
       made' = IF error # "none"
               THEN Made(error, <<>>, [hi |-> 0, lo |-> 0], 0)
               ELSE LET r == Address(text, <<>>)
                    IN Made("ok", r.cidr, r.value, r.prefix)
  /\ UNCHANGED <<self, other, answer, third, answers, text>>
  /\ UNCHANGED storeVars

AddressNext == Address__init__

AddressSpec == AddressInit /\ [][AddressNext]_vars

----------------------------------------------------------------------------
(* IPManager(storage_fn) on its own: the file is drawn, then the call      *)

\* the most lines of a file the constructor is called on
MaxLines == 3

\* lines of a file: rows of two fields (two addresses, two notes), a row of
\* one field and a row of three
LoadLines ==
  { WriteRow(a, n) : a \in { <<"1", "0", ".", "0", ".", "0", ".", "1">>,
                             <<"1", "0", "/", "8">> },
                     n \in { <<"h", "o", "s", "t">>, <<"n", "e", "t">> } }
  \cup { QuoteField(<<"1", "0", "/", "8">>) \o <<CR, LF>>,
         QuoteField(<<"1", "0", "/", "8">>) \o <<COMMA>>
           \o QuoteField(<<"n", "e", "t">>) \o <<COMMA>>
           \o QuoteField(<<"x">>) \o <<CR, LF>> }

\* the files of at most n lines
RECURSIVE FilesOf(_)
FilesOf(n) ==
  IF n = 0 THEN {<<>>}
  ELSE LET shorter == FilesOf(n - 1)
       IN shorter \cup {f \o l : f \in shorter, l \in LoadLines}

LoadFiles == FilesOf(MaxLines)

\* before the call there is no store
LoadInit ==
  /\ file \in LoadFiles
  /\ storage = <<>> /\ alive = FALSE /\ fresh = FALSE /\ written = 0
  /\ last = Call("none", "none", <<>>, <<>>)
  /\ PureIdle

LoadNext == __init__ /\ UNCHANGED pureVars

LoadSpec == LoadInit /\ [][LoadNext]_vars

----------------------------------------------------------------------------
(* Chains of __contains__: three records are drawn, then the three calls   *)

\* prefixes of the records of a chain: the extremes, the octet boundaries,
\* and the lengths at which the values of Values part from each other
ChainPrefixes == {0, 8, 15, 16, 24, 31, 32}

ChainRecords == [value : Values, prefix : ChainPrefixes]

ChainInit ==
  /\ StoreIdle
  /\ self \in ChainRecords /\ other \in ChainRecords
  /\ third \in ChainRecords
  /\ answer = "unset" /\ answers = NoAnswers
  /\ text = <<>> /\ made = NotMade

\* what 'b in a' gives: the exception or the truth value
In(b, a) ==
  IF ContainsRaises(a) THEN "ValueError"
  ELSE IF Contains(a, b) THEN "True" ELSE "False"

\* other in self, third in other, third in self
contains_chain ==
  /\ answers = NoAnswers
  /\ answers' = [ab |-> In(other, self), bc |-> In(third, other),
                  ac |-> In(third, self)]
  /\ UNCHANGED <<self, other, answer, third, text, made>>
  /\ UNCHANGED storeVars

ChainNext == contains_chain

ChainSpec == ChainInit /\ [][ChainNext]_vars

----------------------------------------------------------------------------
(* Notions the properties are stated with                                  *)

\* the mapping a dict holds: the set of (address text, note) pairs
Mapping(st) == {<<st[i].addr, st[i].note>> : i \in 1..Len(st)}

\* the rows of a list of rows, as a set
RowSet(rows) == {rows[i] : i \in 1..Len(rows)}

\* bit i of a 32-bit value, bit 1 being the most significant
Bit(v, i) ==
  IF i <= 16 THEN (v.hi \div (2 ^ (16 - i))) % 2
  ELSE (v.lo \div (2 ^ (WordBits - i))) % 2

\* the top p bits of the two values are the same
TopBitsEqual(a, b, p) == \A i \in 1..p : Bit(a, i) = Bit(b, i)

\* r falls in the block: same network bits, prefix at least the block's
InBlock(block, r) ==
  TopBitsEqual(block.value, r.value, block.prefix) /\ block.prefix <= r.prefix

\* the step is a call of insert
InsertStep == last'.op = "insert" /\ \E a \in Addresses, n \in Notes,
                f \in BOOLEAN : insert(a, n, f)

----------------------------------------------------------------------------
(* Properties                                                              *)

\* C1: an insert of a new address whose value or prefix is malformed raises
\* the format error before any mutation: entries and file are as before.
C1_MalformedInsertChangesNothing ==
  [][\A a \in Addresses, n \in Notes :
       (/\ (\A i \in 1..Len(storage) : storage[i].addr # a)
        /\ AddressError(a) # "none"
        /\ insert(a, n, FALSE))
       => (last'.outcome = AddressError(a)
           /\ storage' = storage /\ file' = file)]_vars

\* C2: for a single store started on an empty file, in every state a new
\* store built from the same file is built successfully and holds the same
\* mapping of address text to note as the current entries.
C2_ReloadEqualsEntries ==
  (fresh /\ alive) =>
    \E loaded \in {_load_storage(file)} :
      loaded.ok /\ Mapping(loaded.storage) = Mapping(storage)

\* C3: in every state of a store, each entry (a, n) is a record of the
\* backing file: one of the rows the file reads as is (a, n).
C3_EntriesArePersisted ==
  alive =>
    \A i \in 1..Len(storage) :
      <<storage[i].addr, storage[i].note>> \in RowSet(ReadRows(file).rows)

\* C4: when the append fails during the insert of a new address, insert
\* returns normally (the failure is printed, not raised), the entries are
\* as before and the store stays usable.
C4_FailedAppendLeavesEntries ==
  [][\A a \in Addresses, n \in Notes :
       (/\ last'.op = "insert"
        /\ (\A i \in 1..Len(storage) : storage[i].addr # a)
        /\ insert(a, n, TRUE))
       => (last'.outcome = "printed" /\ storage' = storage /\ alive')]_vars

C4_Witness ==
  last.op = "insert" /\ last.outcome = "printed" /\ alive /\ Len(storage) > 0

\* C5: an insert of a text that is already a key returns without raising
\* and changes nothing: same entries (size and notes), nothing appended.
C5_DuplicateInsertIsNoOp ==
  [][\A a \in Addresses, n \in Notes, f \in BOOLEAN :
       (/\ last'.op = "insert"
        /\ (\E i \in 1..Len(storage) : storage[i].addr = a)
        /\ insert(a, n, f))
       => (last'.outcome = "skip" /\ storage' = storage /\ file' = file)]_vars

C5_Witness ==
  last.op = "insert" /\ last.outcome = "skip" /\ Len(storage) > 0

\* C6: after insert(a, n) of a well-formed new address succeeds, a store
\* newly built from the same file returns from lookup(a) a record with note
\* n, whatever happened on the first store before.
C6_InsertThenReloadFindsNote ==
  [][\A a \in Addresses, n \in Notes :
       (/\ (\A i \in 1..Len(storage) : storage[i].addr # a)
        /\ AddressError(a) = "none"
        /\ insert(a, n, FALSE))
       => \E loaded \in {_load_storage(file')} :
            /\ loaded.ok
            /\ Len(Get(loaded.storage, a)) = 1
            /\ Get(loaded.storage, a)[1].note = n]_vars

\* C7: every insert either appends exactly one record at the end of the
\* file and adds exactly one new key (the old entries staying in place), or
\* changes neither the file nor the entries.
C7_InsertAppendsBothOrNeither ==
  [][InsertStep =>
       \/ file' = file /\ storage' = storage
       \/ \E a \in Addresses, n \in Notes :
            /\ file' = file \o WriteRow(a, n)
            /\ Len(storage') = Len(storage) + 1
            /\ SubSeq(storage', 1, Len(storage)) = storage
            /\ storage'[Len(storage')].addr = a
            /\ storage'[Len(storage')].note = n
            /\ \A i \in 1..Len(storage) : storage[i].addr # a]_vars

\* C8: for prefixes in 0..32, contains is true exactly when the top
\* self.prefix bits of the two values agree and self.prefix <= other.prefix;
\* so a record contains itself and never a record with a smaller prefix.
C8_ContainsIffTopBitsAndPrefix ==
  answer # "unset" =>
    /\ answer \in {"True", "False"}
    /\ (answer = "True") <=> InBlock(self, other)
    /\ (self = other) => (answer = "True")
    /\ (other.prefix < self.prefix) => (answer = "False")

C8_Witness ==
  /\ answer = "True" /\ self.value # other.value
  /\ 16 < self.prefix /\ self.prefix < other.prefix

\* C9: a record of prefix 0 contains every record, whatever the two values.
C9_PrefixZeroContainsAll ==
  (answer # "unset" /\ self.prefix = 0) => answer = "True"

C9_Witness ==
  /\ answer = "True" /\ self.prefix = 0 /\ other.prefix = WordBits
  /\ self.value = [hi |-> 0, lo |-> 0] /\ other.value = [hi |-> 51201, lo |-> 515]

\* C10: for a well-formed cidr text with a prefix in 0..32, addrs_by_cidr
\* returns exactly the stored records that fall in the block of the cidr,
\* each once, in the insertion order of the entries.
C10_CidrSearchIsBlockFilter ==
  (/\ last.op = "addrs_by_cidr"
   /\ AddressError(last.arg) = "none"
   /\ Address(last.arg, <<>>).prefix \in Prefixes)
  => /\ last.outcome = "ok"
     /\ last.result =
          SelectSeq(storage, LAMBDA r : InBlock(Address(last.arg, <<>>), r))

\* the search of the __main__ block: the three hosts, not the /16 network
C10_Witness ==
  /\ last.op = "addrs_by_cidr" /\ last.outcome = "ok"
  /\ last.arg = <<"1", "3", "7", ".", "4", "3", ".", "4", "/", "2", "4">>
  /\ Keys(storage) =
       << <<"1", "3", "7", ".", "4", "3", ".", "4", ".", "1", "8">>,
          <<"1", "3", "7", ".", "4", "3", ".", "4", ".", "1", "9">>,
          <<"1", "3", "7", ".", "4", "3", ".", "4", ".", "2", "0", "/", "3", "2">>,
          <<"1", "3", "7", ".", "4", "3", "/", "1", "6">> >>
  /\ Keys(last.result) =
       << <<"1", "3", "7", ".", "4", "3", ".", "4", ".", "1", "8">>,
          <<"1", "3", "7", ".", "4", "3", ".", "4", ".", "1", "9">>,
          <<"1", "3", "7", ".", "4", "3", ".", "4", ".", "2", "0", "/", "3", "2">> >>

\* the text occurs in the note: the note is some text, then sub, then some
\* text, character for character
OccursIn(sub, note) ==
  \E k \in 0..Len(note) :
    /\ k + Len(sub) <= Len(note)
    /\ \A j \in 1..Len(sub) : note[k + j] = sub[j]

\* C11: addrs_by_note returns exactly the stored records whose note holds
\* the text as a literal, case-sensitive substring, in the insertion order
\* of the entries; with the empty text it returns every stored record.
C11_NoteSearchIsSubstringFilter ==
  last.op = "addrs_by_note" =>
    /\ last.outcome = "ok"
    /\ last.result = SelectSeq(storage, LAMBDA r : OccursIn(last.arg, r.note))
    /\ (last.arg = <<>>) => (last.result = storage)

\* the search of the __main__ block: the two hosts and host/cidr, not net
C11_Witness ==
  /\ last.op = "addrs_by_note" /\ last.arg = <<"h", "o", "s", "t">>
  /\ Len(storage) >= 4 /\ Len(last.result) = 3
  /\ last.result[3].note = <<"h", "o", "s", "t", "/", "c", "i", "d", "r">>
  /\ storage[4].note = <<"n", "e", "t">>

\* the address texts Address accepts
WellFormed == {a \in Addresses : AddressError(a) = "none"}

\* C12: entries are keyed by the literal text.  lookup returns the entry
\* whose key is exactly the text asked for, or nothing (without raising)
\* when no key is that text; and an insert of a well-formed text that is
\* not a key adds an entry of its own, also when an entry for the same
\* block under another spelling is already there.
C12_KeysAreLiteralTexts ==
  [][/\ \A a \in Addresses :
          (last'.op = "lookup" /\ lookup(a))
          => /\ last'.outcome = "ok"
             /\ \A i \in 1..Len(storage) :
                  (storage[i].addr = a) => (last'.result = <<storage[i]>>)
             /\ (\A i \in 1..Len(storage) : storage[i].addr # a)
                  => (last'.result = <<>>)
     /\ \A a \in WellFormed, n \in Notes :
          (/\ last'.op = "insert"
           /\ (\A i \in 1..Len(storage) : storage[i].addr # a)
           /\ insert(a, n, FALSE))
          => /\ Len(storage') = Len(storage) + 1
             /\ SubSeq(storage', 1, Len(storage)) = storage
             /\ storage'[Len(storage')].addr = a]_vars

\* 137.43/16 and 137.43.0.0/16 are both entries, and the second was looked
\* up
C12_Witness ==
  /\ last.op = "lookup" /\ Len(last.result) = 1
  /\ last.arg = <<"1", "3", "7", ".", "4", "3", ".", "0", ".", "0", "/", "1", "6">>
  /\ last.result[1].addr = last.arg
  /\ \E i, j \in 1..Len(storage) :
       /\ storage[i].addr = <<"1", "3", "7", ".", "4", "3", "/", "1", "6">>
       /\ storage[j].addr = last.arg
       /\ storage[i].value = storage[j].value
       /\ storage[i].prefix = storage[j].prefix

\* a dotted part that is a decimal number in 0..255
IsOctet(token) ==
  /\ Len(token) >= 1
  /\ \A i \in 1..Len(token) : token[i] \in Digit
  /\ ReadDigits(token, 1, 10, 0).val <= 255

\* the dotted parts of a value, "0" parts added after them up to four
PadToFour(tokens) ==
  [i \in 1..(IF Len(tokens) < 4 THEN 4 ELSE Len(tokens)) |->
     IF i <= Len(tokens) THEN tokens[i] ELSE <<"0">>]

\* a prefix token that is an integer: an optional sign and decimal digits,
\* white space around them allowed
IsInteger(token) ==
  LET t == StripRight(StripLeft(token))
      d == IF Len(t) > 0 /\ t[1] \in {"+", "-"} THEN Tail(t) ELSE t
  IN Len(d) >= 1 /\ \A i \in 1..Len(d) : d[i] \in Digit

\* a valid dotted-decimal text: one to four octets, then nothing or a slash
\* and an integer
ValidDotted(t) ==
  /\ Len(Split(ValuePart(t), ".")) \in 1..4
  /\ \A i \in 1..Len(Split(ValuePart(t), ".")) :
       IsOctet(Split(ValuePart(t), ".")[i])
  /\ IsInteger(PrefixPart(t))

\* C13: for a valid dotted-decimal text of one to four octets, with or
\* without a prefix, the cidr slot of the record built is the four octets
\* (the octets given, then 0 for each missing one) separated by dots, then
\* a slash and the prefix.
C13_CidrHasFourOctets ==
  (made.outcome = "ok" /\ ValidDotted(text)) =>
    /\ Len(Split(ValuePart(made.cidr), ".")) = 4
    /\ made.cidr = Join(PadToFour(Split(ValuePart(text), ".")), ".")
                     \o <<"/">> \o PrefixPart(text)

\* the value part, padded, is exactly four octets
FourOctets(t) ==
  LET parts == PadToFour(Split(ValuePart(t), "."))
  IN Len(parts) = 4 /\ \A i \in 1..4 : IsOctet(parts[i])

\* C14: Address raises OSError (invalid address format) whenever the value
\* part, padded to four parts, is not exactly four decimal integers in
\* 0..255, raises ValueError (invalid prefix format) whenever the value
\* part is in order and the prefix token is not an integer, and builds a
\* record for every other text; a call that raises builds no record.
C14_ConstructionFailsExactlyOnMalformedText ==
  made.outcome # "unset" =>
    /\ ~FourOctets(text) => made.outcome = "OSError"
    /\ (FourOctets(text) /\ ~IsInteger(PrefixPart(text)))
         => made.outcome = "ValueError"
    /\ (FourOctets(text) /\ IsInteger(PrefixPart(text)))
         => made.outcome = "ok"
    /\ (made.outcome # "ok") => (made.cidr = <<>>)

\* the rows csv.reader yields for the file
FileRows == ReadRows(file).rows

\* C15: when a line of the file does not read as exactly two fields, the
\* constructor raises and there is no store: nothing of the rows before
\* the bad one is loaded.
C15_BadLineFailsConstruction ==
  (/\ last.op = "__init__"
   /\ \E i \in 1..Len(FileRows) : Len(FileRows[i]) # 2)
  => (last.outcome = "raised" /\ ~alive /\ storage = <<>>)

\* a good row, then a row that is not two fields
C15_Witness ==
  /\ last.op = "__init__" /\ last.outcome = "raised" /\ ~alive
  /\ Len(FileRows) >= 2
  /\ Len(FileRows[1]) = 2 /\ Len(FileRows[2]) # 2

\* the address texts of the rows of the file
FileKeys == {FileRows[i][1] : i \in 1..Len(FileRows)}

\* the last row of the file with the address text a
LastRowOf(a) ==
  CHOOSE i \in 1..Len(FileRows) :
    /\ FileRows[i][1] = a
    /\ \A j \in (i + 1)..Len(FileRows) : FileRows[j][1] # a

\* C16: a store loaded from a file has, for each address text of the file,
\* a single entry, with the note of the last line of that text; the number
\* of entries is the number of distinct address texts of the file.
C16_LoadIsLastWriteWins ==
  (last.op = "__init__" /\ alive) =>
    /\ Len(storage) = Cardinality(FileKeys)
    /\ \A a \in FileKeys :
         /\ Cardinality({i \in 1..Len(storage) : storage[i].addr = a}) = 1
         /\ \A i \in 1..Len(storage) :
              (storage[i].addr = a)
              => (storage[i].note = FileRows[LastRowOf(a)][2])

\* three lines, the first and the third of one address text with
\* different notes
C16_Witness ==
  /\ last.op = "__init__" /\ alive
  /\ Len(FileRows) = 3 /\ Len(storage) = 2
  /\ FileRows[1][1] = FileRows[3][1] /\ FileRows[1][2] # FileRows[3][2]
  /\ storage[1].addr = FileRows[1][1] /\ storage[1].note = FileRows[3][2]

\* the step is a call of lookup, addrs_by_cidr or addrs_by_note
ReadStep ==
  \/ \E a \in Addresses : lookup(a)
  \/ \E c \in Cidrs : addrs_by_cidr(c)
  \/ \E n \in Substrings : addrs_by_note(n)

\* C17: a call of lookup, addrs_by_cidr or addrs_by_note, whether it
\* returns or raises, leaves the entries and the file as they were; the
\* record addrs_by_cidr builds from its argument is not stored.
C17_ReadsChangeNothing ==
  [][(last'.op \in {"lookup", "addrs_by_cidr", "addrs_by_note"} /\ ReadStep)
       => (storage' = storage /\ file' = file)]_vars

\* a search that returned records of a store with entries and a file
C17_Witness ==
  /\ last.op = "addrs_by_cidr" /\ last.outcome = "ok"
  /\ Len(last.result) > 0 /\ Len(storage) > Len(last.result)
  /\ Len(file) > 0

\* C18: on one store (no new store is built in between) an entry is never
\* changed or removed: whatever call is made, lookup of a text that was a
\* key before the call returns the same record after it, with the same
\* address text, note, value and prefix.
C18_EntriesAreNeverChanged ==
  [][(last'.op # "__init__")
       => \A i \in 1..Len(storage) :
            Get(storage', storage[i].addr) = <<storage[i]>>]_vars

\* the first of two inserted records, looked up after the second insert
C18_Witness ==
  /\ fresh /\ written = 2 /\ Len(storage) = 2
  /\ last.op = "lookup" /\ last.result = <<storage[1]>>

\* C19: addrs_by_cidr raises only for a malformed text: for a text Address
\* accepts, whatever integer its prefix is (above 32 included), a call on a
\* store with entries returns a list of records.
C19_CidrSearchFailsOnlyOnMalformedText ==
  (/\ last.op = "addrs_by_cidr"
   /\ AddressError(last.arg) = "none"
   /\ Len(storage) > 0)
  => last.outcome = "ok"

\* C20: for records with prefixes in 0..32, if self contains other and
\* other contains third then self contains third; so a record addrs_by_cidr
\* returns for the block other is also returned for a block self that
\* contains other.
C20_ContainmentIsTransitive ==
  (answers # NoAnswers) =>
    /\ (answers.ab = "True" /\ answers.bc = "True") => (answers.ac = "True")
    /\ (answers.ab = "True" /\ CidrMatches(<<third>>, other) = <<third>>)
         => (CidrMatches(<<third>>, self) = <<third>>)

\* a chain of three different values under three growing prefixes
C20_Witness ==
  /\ answers.ab = "True" /\ answers.bc = "True" /\ answers.ac = "True"
  /\ 0 < self.prefix /\ self.prefix < other.prefix
  /\ other.prefix < third.prefix
  /\ self.value # other.value /\ other.value # third.value
  /\ self.value # third.value

====
